---- MODULE Spec2Model ----
(***************************************************************************)
(* Ecommerce API (src/main.py): product catalogue, seeding and checkout    *)
(* over a document store with a "product" and an "order" collection.       *)
(*                                                                         *)
(* Money.  Prices are whole cents (integers).  Python computes with floats *)
(* and round(x, 2); on cent-valued prices the exact value of subtotal*0.08 *)
(* is a multiple of 0.0004, never a half cent, and subtotal + tax is a     *)
(* whole number of cents, so the float result of every round() is the      *)
(* exactly rounded one.  Amounts handed to round() are in ticks            *)
(* (1 tick = 1/100 cent); round(x, 2) yields cents.                        *)
(*                                                                         *)
(* Identifiers.  A request's product_id is a string; ObjectId(s) parses 24 *)
(* hex digits of either case into 12 bytes and str(oid) prints them in     *)
(* lower case.  A string is modelled by the form it is written in and the  *)
(* bytes it denotes.                                                       *)
(***************************************************************************)
EXTENDS Integers, Sequences, FiniteSets, TLC

\* products, orders: the "product" and the "order" collection, in store
\*     order; db is a connected handle.
\* req, resp: the request served last and the response it got.
\* seeded_true: how many seed responses so far said seeded=true.
\* pc, local: for each request being served store call by store call, the
\*     call it has reached and the handler's local variables.
VARIABLES products, orders, req, resp, seeded_true, pc, local

vars == <<products, orders, req, resp, seeded_true, pc, local>>

(* ------------------------------ bounds --------------------------------- *)
\* products a run may add through create_product
MaxCreated == 1
\* orders a run of the server may persist
MaxOrders == 1
\* request slots served concurrently
NReq == 2
\* items in a checkout request
MaxItems == 2
\* products of a catalogue a single checkout is applied to
MaxCatalog == 2

Req == 1..NReq

(* ------------------------------ strings -------------------------------- *)
UpperCase == <<"A","B","C","D","E","F","G","H","I","J","K","L","M",
               "N","O","P","Q","R","S","T","U","V","W","X","Y","Z">>
LowerCase == <<"a","b","c","d","e","f","g","h","i","j","k","l","m",
               "n","o","p","q","r","s","t","u","v","w","x","y","z">>

\* the lower-case letter of every upper-case letter
ToLower ==
    [c \in {UpperCase[i] : i \in 1..Len(UpperCase)} |->
        LowerCase[CHOOSE i \in 1..Len(UpperCase) : UpperCase[i] = c]]

\* case folding of one character, as the regex option "i" compares
Fold(c) == IF c \in DOMAIN ToLower THEN ToLower[c] ELSE c

\* {"$regex": q, "$options": "i"} for a q of plain letters: q occurs in
\* title, case ignored
RegexMatch(q, title) ==
    \E k \in 0..(Len(title) - Len(q)) :
        \A i \in 1..Len(q) : Fold(title[k + i]) = Fold(q[i])

(* ---------------------------- identifiers ------------------------------ *)
\* ObjectId.is_valid(s): 24 hex digits, upper or lower case
is_valid(s) == s.form \in {"lower", "upper"}

\* ObjectId(s): the twelve bytes the hex string denotes
ObjectId(s) == s.oid

\* str(oid): the bytes printed as lower-case hex
str(oid) == [form |-> "lower", oid |-> oid]

(* ------------------------------- money --------------------------------- *)
\* round(x, 2) of Python: x in ticks, result in cents, ties to even
Round2(x) ==
    LET q == x \div 100
        r == x % 100
    IN  IF r < 50 THEN q
        ELSE IF r > 50 THEN q + 1
        ELSE IF q % 2 = 0 THEN q ELSE q + 1

\* a cent amount in ticks
Ticks(c) == c * 100

\* subtotal * 0.08, in ticks, of a subtotal in cents
TimesTaxRate(subtotal) == subtotal * 8

(* ------------------------------ products ------------------------------- *)
\* an absent optional field (Python None)
None == "None"

\* the six sample products of seed_products, prices in cents
sample == <<
    [title |-> <<"W","i","r","e","l","e","s","s"," ","H","e","a","d","p","h","o","n","e","s">>,
     description |-> "Noise-cancelling over-ear headphones", price |-> 12999, category |-> "Electronics",
     image |-> "https://images.unsplash.com/photo-1518443155474-2d46acb2b3de?auto=format&fit=crop&w=800&q=60",
     in_stock |-> TRUE],
    [title |-> <<"S","m","a","r","t"," ","W","a","t","c","h">>,
     description |-> "Track fitness and notifications", price |-> 19900, category |-> "Electronics",
     image |-> "https://images.unsplash.com/photo-1516570161787-2fd917215a3d?auto=format&fit=crop&w=800&q=60",
     in_stock |-> TRUE],
    [title |-> <<"E","s","p","r","e","s","s","o"," ","M","a","c","h","i","n","e">>,
     description |-> "Barista-quality coffee at home", price |-> 34900, category |-> "Home",
     image |-> "https://images.unsplash.com/photo-1470176519524-3cf9e6dccbad?auto=format&fit=crop&w=800&q=60",
     in_stock |-> TRUE],
    [title |-> <<"R","u","n","n","i","n","g"," ","S","h","o","e","s">>,
     description |-> "Lightweight and comfortable", price |-> 8999, category |-> "Fashion",
     image |-> "https://images.unsplash.com/photo-1542291026-7eec264c27ff?auto=format&fit=crop&w=800&q=60",
     in_stock |-> TRUE],
    [title |-> <<"B","a","c","k","p","a","c","k">>,
     description |-> "Durable everyday carry", price |-> 5999, category |-> "Accessories",
     image |-> "https://images.unsplash.com/photo-1521093470119-a3acdc43374e?auto=format&fit=crop&w=800&q=60",
     in_stock |-> TRUE],
    [title |-> <<"B","l","u","e","t","o","o","t","h"," ","S","p","e","a","k","e","r">>,
     description |-> "Portable with deep bass", price |-> 7950, category |-> "Electronics",
     image |-> "https://images.unsplash.com/photo-1512446816042-444d641267d4?auto=format&fit=crop&w=800&q=60",
     in_stock |-> TRUE]
>>

\* request bodies of POST /api/products (a Product without id)
NewProducts == {
    [title |-> <<"M","u","g">>, description |-> None, price |-> 1000,
     category |-> "Home", image |-> None, in_stock |-> TRUE],
    [title |-> <<"D","e","s","k"," ","L","a","m","p">>, description |-> "Warm light",
     price |-> 2000, category |-> "Office", image |-> None, in_stock |-> FALSE] }

\* a document as stored: the fields of doc under a store-assigned _id
WithId(doc, id) ==
    [_id |-> id, title |-> doc.title, description |-> doc.description,
     price |-> doc.price, category |-> doc.category, image |-> doc.image,
     in_stock |-> doc.in_stock]

(* ------------------------------ the store ------------------------------- *)
\* collection.count_documents({})
count_documents(coll) == Len(coll)

\* collection.insert_many(docs): every doc is appended under a fresh _id
insert_many(coll, docs) ==
    coll \o [i \in 1..Len(docs) |-> WithId(docs[i], Len(coll) + i)]

\* create_document("product", product): one document appended under a fresh
\* _id
create_document_product(coll, product) ==
    Append(coll, WithId(product, Len(coll) + 1))

\* collection.find({"_id": {"$in": ids}}): the documents whose _id is one of
\* ids
find_in(coll, ids) ==
    SelectSeq(coll, LAMBDA d : \E k \in DOMAIN ids : ids[k] = d._id)

\* the filter document of list_products: a falsy category or q adds no
\* condition
Matches(d, category, q) ==
    /\ (category # "" => d.category = category)
    /\ (q # <<>> => RegexMatch(q, d.title))

\* the first n elements of s (cursor.limit(n))
Take(s, n) == SubSeq(s, 1, IF n < Len(s) THEN n ELSE Len(s))

\* get_documents("product", filt, limit): the matching documents in store
\* order, at most limit of them
get_documents(coll, category, q, limit) ==
    Take(SelectSeq(coll, LAMBDA d : Matches(d, category, q)), limit)

(* --------------------------- list_products ------------------------------ *)
\* the default of the limit query parameter
DefaultLimit == 50

\* ProductOut(...) of one stored document
ProductOut(d) ==
    [id |-> str(d._id), title |-> d.title, description |-> d.description,
     price |-> d.price, category |-> d.category, image |-> d.image,
     in_stock |-> d.in_stock]

\* the response body of GET /api/products
ListOut(coll, category, q, limit) ==
    LET docs == get_documents(coll, category, q, limit)
    IN  [i \in 1..Len(docs) |-> ProductOut(docs[i])]

(* --------------------------- seed_products ------------------------------ *)
\* the skip test off by one: a collection of one product is seeded again
SeedSkipsAboveOne(count) == count > 1

\* "if count > 0: return"
SeedSkips(count) == count > 0

SeedSkipped(count) ==
    [status |-> 200, seeded |-> FALSE, message |-> "Products already exist",
     count |-> count]

SeedDone(inserted) == [status |-> 200, seeded |-> TRUE, inserted |-> inserted]

(* ------------------------------ checkout -------------------------------- *)
\* the identifiers collected without the is_valid filter
ValidIdsUnfiltered(items) ==
    [k \in 1..Len(items) |-> ObjectId(items[k].product_id)]

\* ids = [ObjectId(i.product_id) for i in items if ObjectId.is_valid(...)]
ValidIds(items) ==
    LET ok == SelectSeq(items, LAMBDA i : is_valid(i.product_id))
    IN  [k \in 1..Len(ok) |-> ObjectId(ok[k].product_id)]

\* price_map = {str(p["_id"]): float(p.get("price", 0)) for p in products}
\* (every stored product has a price)
PriceMap(found) ==
    [k \in {str(found[i]._id) : i \in DOMAIN found} |->
        LET i == CHOOSE i \in DOMAIN found : str(found[i]._id) = k
        IN  found[i].price]

\* "pid not in price_map"
Missing(pid, price_map) == pid \notin DOMAIN price_map

\* the loop adding the price once for each item, whatever its quantity
RECURSIVE LoopIgnoresQuantity(_, _, _, _)
LoopIgnoresQuantity(items, price_map, i, subtotal) ==
    IF i > Len(items) THEN [raised |-> FALSE, subtotal |-> subtotal]
    ELSE LET pid == items[i].product_id
         IN  IF pid \notin DOMAIN price_map
             THEN [raised |-> TRUE, pid |-> pid]
             ELSE LoopIgnoresQuantity(items, price_map, i + 1,
                                      subtotal + price_map[pid])

\* the loop passing over an item without a price instead of raising
RECURSIVE LoopSkipsMissing(_, _, _, _)
LoopSkipsMissing(items, price_map, i, subtotal) ==
    IF i > Len(items) THEN [raised |-> FALSE, subtotal |-> subtotal]
    ELSE LET pid == items[i].product_id
         IN  IF pid \notin DOMAIN price_map
             THEN LoopSkipsMissing(items, price_map, i + 1, subtotal)
             ELSE LoopSkipsMissing(items, price_map, i + 1,
                       subtotal + price_map[pid] * items[i].quantity)

\* the for loop over payload.items from item i on: the first item whose
\* product_id is missing raises, the others add price * quantity
RECURSIVE Loop(_, _, _, _)
Loop(items, price_map, i, subtotal) ==
    IF i > Len(items) THEN [raised |-> FALSE, subtotal |-> subtotal]
    ELSE LET pid == items[i].product_id
         IN  IF Missing(pid, price_map)
             THEN [raised |-> TRUE, pid |-> pid]
             ELSE Loop(items, price_map, i + 1,
                       subtotal + price_map[pid] * items[i].quantity)

\* the tax cut off after two decimals instead of rounded
TaxTruncated(subtotal) == TimesTaxRate(subtotal) \div 100

\* tax = round(subtotal * 0.08, 2)
Tax(subtotal) == Round2(TimesTaxRate(subtotal))

\* total = round(subtotal + tax, 2)
Total(subtotal, tax) == Round2(Ticks(subtotal) + Ticks(tax))

\* OrderItem(product_id=i.product_id, quantity=i.quantity)
OrderItem(i) == [product_id |-> i.product_id, quantity |-> i.quantity]

\* Order(customer_name=..., items=[...], subtotal=round(subtotal, 2),
\* tax=tax, total=total)
MakeOrder(payload, subtotal, tax, total) ==
    [customer_name |-> payload.customer_name,
     customer_email |-> payload.customer_email,
     customer_address |-> payload.customer_address,
     items |-> [k \in 1..Len(payload.items) |-> OrderItem(payload.items[k])],
     subtotal |-> Round2(Ticks(subtotal)),
     tax |-> tax,
     total |-> total]

\* raise HTTPException(status_code=400, detail=...)
HTTP400(detail) == [status |-> 400, detail |-> detail]

InvalidInput == HTTP400(<<"Invalid product IDs">>)

ProductNotFound(pid) == HTTP400(<<"Product not found: ", pid>>)

\* checkout up to the point where the order is handed to the store: what
\* it raises, or the Order it has built, given the product collection coll
\* that the find() reads
Prepare(coll, payload) ==
    LET ids == ValidIds(payload.items)
    IN  IF ids = <<>> THEN [raised |-> TRUE, error |-> InvalidInput]
        ELSE LET price_map == PriceMap(find_in(coll, ids))
                 l == Loop(payload.items, price_map, 1, 0)
             IN  IF l.raised
                 THEN [raised |-> TRUE, error |-> ProductNotFound(l.pid)]
                 ELSE LET tax == Tax(l.subtotal)
                          total == Total(l.subtotal, tax)
                      IN  [raised |-> FALSE,
                           order |-> MakeOrder(payload, l.subtotal, tax, total),
                           total |-> total]

\* create_document("order", order): the order appended under a fresh _id
create_document_order(coll, order) ==
    Append(coll, [_id |-> Len(coll) + 1, doc |-> order])

\* CheckoutResponse(order_id=order_id, total=total)
CheckoutResponse(order_id, total) ==
    [status |-> 200, order_id |-> order_id, total |-> total]

(* ------------------------------- inputs --------------------------------- *)
\* product_id strings of a request: the ids of the first two stored
\* products in lower case, the first one in upper case, and a string that
\* is no ObjectId
ProductIds ==
    {[form |-> "lower", oid |-> 1], [form |-> "lower", oid |-> 2],
     [form |-> "upper", oid |-> 1], [form |-> "bad", oid |-> 0]}

\* CartItem.quantity is any int
Quantities == {-1, 0, 1, 2}

CartItems == [product_id : ProductIds, quantity : Quantities]

ItemLists == UNION {[1..n -> CartItems] : n \in 0..MaxItems}

Customers ==
    {[customer_name |-> "Ann", customer_email |-> "ann@example.com",
      customer_address |-> "1 Main St"],
     [customer_name |-> "Bob", customer_email |-> "bob@example.com",
      customer_address |-> "2 Side Rd"]}

\* CheckoutRequest bodies
Payload(c, items) ==
    [customer_name |-> c.customer_name, customer_email |-> c.customer_email,
     customer_address |-> c.customer_address, items |-> items]

Payloads == {Payload(c, items) : c \in Customers, items \in ItemLists}

Item(form, oid, quantity) ==
    [product_id |-> [form |-> form, oid |-> oid], quantity |-> quantity]

Ann == CHOOSE c \in Customers : c.customer_name = "Ann"

Bob == CHOOSE c \in Customers : c.customer_name = "Bob"

\* the checkout requests sent to the running server
Carts ==
    {Payload(Ann, <<Item("lower", 1, 2), Item("lower", 2, 1)>>),
     Payload(Bob, <<Item("lower", 1, 1)>>),
     Payload(Bob, <<Item("lower", 1, 1), Item("bad", 0, 1)>>),
     Payload(Ann, <<Item("upper", 1, 1)>>),
     Payload(Ann, <<>>)}

\* query parameters of GET /api/products: no filter, a category, a title
\* pattern with a cap of one, and a category with a title pattern
ListQueries ==
    {[category |-> "", q |-> <<>>, limit |-> DefaultLimit],
     [category |-> "Home", q |-> <<>>, limit |-> DefaultLimit],
     [category |-> "", q |-> <<"s","H">>, limit |-> 1],
     [category |-> "Electronics", q |-> <<"w","A">>, limit |-> DefaultLimit]}

(* ------------------------------ requests -------------------------------- *)
NoRequest == [op |-> "none"]

NoResponse == [status |-> 0]

IdleFrame == [op |-> "none"]

Init ==
    /\ products = <<>>
    /\ orders = <<>>
    /\ req = NoRequest
    /\ resp = NoResponse
    /\ seeded_true = 0
    /\ pc = [r \in Req |-> "idle"]
    /\ local = [r \in Req |-> IdleFrame]

(* -------------------- handlers, one request at a time ------------------- *)
list_products(category, q, limit) ==
    /\ req' = [op |-> "list_products", category |-> category, q |-> q,
               limit |-> limit]
    /\ resp' = [status |-> 200,
                body |-> ListOut(products, category, q, limit)]
    /\ UNCHANGED <<products, orders, seeded_true, pc, local>>

create_product(product) ==
    /\ products' = create_document_product(products, product)
    /\ req' = [op |-> "create_product", product |-> product]
    /\ resp' = [status |-> 201, id |-> str(products'[Len(products')]._id)]
    /\ UNCHANGED <<orders, seeded_true, pc, local>>

seed_products ==
    LET count == count_documents(products)
    IN  /\ req' = [op |-> "seed_products"]
        /\ IF SeedSkips(count)
           THEN /\ resp' = SeedSkipped(count)
                /\ UNCHANGED <<products, seeded_true>>
           ELSE /\ products' = insert_many(products, sample)
                /\ resp' = SeedDone(Len(products') - Len(products))
                /\ seeded_true' = seeded_true + 1
        /\ UNCHANGED <<orders, pc, local>>

\* checkout handing an Order to the store before its items are validated
checkout_persists_first(payload) ==
    LET c == Prepare(products, payload)
    IN  /\ req' = [op |-> "checkout", payload |-> payload]
        /\ orders' = create_document_order(orders,
                        IF c.raised THEN MakeOrder(payload, 0, 0, 0)
                        ELSE c.order)
        /\ resp' = IF c.raised THEN c.error
                   ELSE CheckoutResponse(orders'[Len(orders')]._id, c.total)
        /\ UNCHANGED <<products, seeded_true, pc, local>>

checkout(payload) ==
    LET c == Prepare(products, payload)
    IN  /\ req' = [op |-> "checkout", payload |-> payload]
        /\ IF c.raised
           THEN /\ resp' = c.error
                /\ UNCHANGED orders
           ELSE /\ orders' = create_document_order(orders, c.order)
                /\ resp' = CheckoutResponse(orders'[Len(orders')]._id, c.total)
        /\ UNCHANGED <<products, seeded_true, pc, local>>

\* products that create_product calls have added so far
Created == Cardinality({i \in DOMAIN products :
                           \E n \in NewProducts : products[i].title = n.title})

Next ==
    \/ \E a \in ListQueries : list_products(a.category, a.q, a.limit)
    \/ \E product \in NewProducts :
          Created < MaxCreated /\ create_product(product)
    \/ seed_products
    \/ \E payload \in Carts :
          Len(orders) < MaxOrders /\ checkout(payload)

Spec == Init /\ [][Next]_vars

(* ------------- handlers, store call by store call, overlapping --------- *)
\* seed_products up to its return or to the insert: count_documents
SeedCount(r) ==
    /\ pc[r] = "idle"
    /\ LET count == count_documents(products)
       IN  IF SeedSkips(count)
           THEN /\ req' = [op |-> "seed_products"]
                /\ resp' = SeedSkipped(count)
                /\ seeded_true' = seeded_true
                /\ UNCHANGED <<pc, local>>
           ELSE /\ pc' = [pc EXCEPT ![r] = "seed_insert"]
                /\ local' = [local EXCEPT
                                ![r] = [op |-> "seed_products", count |-> count]]
                /\ UNCHANGED <<req, resp, seeded_true>>
    /\ UNCHANGED <<products, orders>>

\* seed_products from the insert on: insert_many and the return
SeedInsert(r) ==
    /\ pc[r] = "seed_insert"
    /\ products' = insert_many(products, sample)
    /\ req' = [op |-> "seed_products"]
    /\ resp' = SeedDone(Len(products') - Len(products))
    /\ pc' = [pc EXCEPT ![r] = "idle"]
    /\ seeded_true' = seeded_true + 1
    /\ local' = [local EXCEPT ![r] = IdleFrame]
    /\ UNCHANGED orders

\* checkout up to its raise or to the insert: find and the computation
CheckoutFind(r, payload) ==
    /\ pc[r] = "idle"
    /\ LET c == Prepare(products, payload)
       IN  IF c.raised
           THEN /\ req' = [op |-> "checkout", payload |-> payload]
                /\ resp' = c.error
                /\ UNCHANGED <<pc, local>>
           ELSE /\ pc' = [pc EXCEPT ![r] = "checkout_insert"]
                /\ local' = [local EXCEPT
                                ![r] = [op |-> "checkout", payload |-> payload,
                                        order |-> c.order, total |-> c.total]]
                /\ UNCHANGED <<req, resp>>
    /\ UNCHANGED <<products, orders, seeded_true>>

\* the insert step also marking the ordered products as out of stock
CheckoutInsertMarksSold(r) ==
    /\ pc[r] = "checkout_insert"
    /\ orders' = create_document_order(orders, local[r].order)
    /\ products' =
          [i \in DOMAIN products |->
              IF \E k \in DOMAIN local[r].order.items :
                    local[r].order.items[k].product_id = str(products[i]._id)
              THEN [products[i] EXCEPT !.in_stock = FALSE]
              ELSE products[i]]
    /\ req' = [op |-> "checkout", payload |-> local[r].payload]
    /\ resp' = CheckoutResponse(orders'[Len(orders')]._id, local[r].total)
    /\ pc' = [pc EXCEPT ![r] = "idle"]
    /\ local' = [local EXCEPT ![r] = IdleFrame]
    /\ UNCHANGED seeded_true

\* checkout from the insert on: create_document and the response
CheckoutInsert(r) ==
    /\ pc[r] = "checkout_insert"
    /\ orders' = create_document_order(orders, local[r].order)
    /\ req' = [op |-> "checkout", payload |-> local[r].payload]
    /\ resp' = CheckoutResponse(orders'[Len(orders')]._id, local[r].total)
    /\ pc' = [pc EXCEPT ![r] = "idle"]
    /\ local' = [local EXCEPT ![r] = IdleFrame]
    /\ UNCHANGED <<products, seeded_true>>

\* orders that requests past their find are about to insert
InFlight == Cardinality({r \in Req : pc[r] = "checkout_insert"})

NextConc ==
    \/ \E a \in ListQueries : list_products(a.category, a.q, a.limit)
    \/ \E product \in NewProducts :
          Created < MaxCreated /\ create_product(product)
    \/ \E r \in Req : SeedCount(r)
    \/ \E r \in Req : SeedInsert(r)
    \/ \E r \in Req, payload \in Carts :
          Len(orders) + InFlight < MaxOrders /\ CheckoutFind(r, payload)
    \/ \E r \in Req : CheckoutInsert(r)

SpecConc == Init /\ [][NextConc]_vars

(* ------------- one checkout applied to a store as it may be ------------ *)
\* product collections that create_product calls, or one seed, leave behind
Catalogs ==
    {insert_many(<<>>, docs) :
        docs \in UNION {[1..n -> NewProducts] : n \in 0..MaxCatalog}}
    \cup {insert_many(<<>>, sample)}

\* an earlier order of the first product, where the catalogue has one
PriorOrders(coll) ==
    LET c == Prepare(coll, Payload(Bob, <<Item("lower", 1, 1)>>))
    IN  {<<>>} \cup (IF c.raised THEN {}
                     ELSE {create_document_order(<<>>, c.order)})

InitCheckout ==
    /\ products \in Catalogs
    /\ orders \in PriorOrders(products)
    /\ req = NoRequest
    /\ resp = NoResponse
    /\ seeded_true = IF products = insert_many(<<>>, sample) THEN 1 ELSE 0
    /\ pc = [r \in Req |-> "idle"]
    /\ local = [r \in Req |-> IdleFrame]

NextCheckout == req = NoRequest /\ \E payload \in Payloads : checkout(payload)

SpecCheckout == InitCheckout /\ [][NextCheckout]_vars

(* ------------------------------ properties ------------------------------ *)
Last(s) == s[Len(s)]

\* the stored product a product_id string denotes, if any
Denoted(pid) == {i \in DOMAIN products : products[i]._id = pid.oid}

\* the price of the stored product a product_id string denotes
CatalogPrice(pid) == products[CHOOSE i \in Denoted(pid) : TRUE].price

RECURSIVE SumOfLines(_)
SumOfLines(items) ==
    IF items = <<>> THEN 0
    ELSE CatalogPrice(Head(items).product_id) * Head(items).quantity
         + SumOfLines(Tail(items))

Succeeded == req.op = "checkout" /\ resp.status = 200

Failed == req.op = "checkout" /\ resp.status = 400

\* C1: every persisted Order has tax = round(subtotal * 0.08, 2) and
\* total = round(subtotal + tax, 2), subtotal being its own stored subtotal.
C1_TaxAndTotal ==
    \A i \in DOMAIN orders :
        LET o == orders[i].doc
        IN  /\ o.tax = Round2(o.subtotal * 8)
            /\ o.total = Round2((o.subtotal + o.tax) * 100)

\* an order of a successful checkout whose tax had to be rounded up and
\* whose subtotal is not zero
C1_Witness ==
    /\ Succeeded
    /\ (Last(orders).doc.subtotal * 8) % 100 > 50
    /\ Last(orders).doc.tax > 0

\* C2: after a successful checkout the persisted subtotal is the sum, over
\* every request item in turn (repeated product ids counted each time), of
\* the stored price of its product times its quantity; with A = 10.00,
\* B = 20.00 and items [(A,2),(B,1)] the order has subtotal 40.00, tax 3.20
\* and total 43.20.
C2_SubtotalIsSum ==
    Succeeded =>
        LET o == Last(orders).doc
            items == req.payload.items
        IN  /\ o.subtotal = SumOfLines(items)
            /\ ( /\ Len(products) = 2
                 /\ products[1].price = 1000
                 /\ products[2].price = 2000
                 /\ items = <<Item("lower", 1, 2), Item("lower", 2, 1)>>
                 => /\ o.subtotal = 4000
                    /\ o.tax = 320
                    /\ o.total = 4320 )

\* the scenario of the specification has run
C2_Witness ==
    /\ Succeeded
    /\ Len(products) = 2
    /\ products[1].price = 1000
    /\ products[2].price = 2000
    /\ req.payload.items = <<Item("lower", 1, 2), Item("lower", 2, 1)>>
    /\ Last(orders).doc.total = 4320

\* a successful checkout that names the same product twice
C2_WitnessRepeated ==
    /\ Succeeded
    /\ req.payload.items = <<Item("lower", 1, 2), Item("lower", 1, 1)>>
    /\ Last(orders).doc.subtotal = 3 * products[1].price
    /\ products[1].price > 0

\* the keys of the price mapping that the request's lookup yields
MappingKeys(items) == DOMAIN PriceMap(find_in(products, ValidIds(items)))

\* the items of the request whose product_id is no key of the mapping
Absent(items) ==
    {i \in DOMAIN items : items[i].product_id \notin MappingKeys(items)}

Min(S) == CHOOSE x \in S : \A y \in S : x <= y

\* C3: a checkout with at least one well-formed identifier and an item
\* whose product_id is absent from the price mapping fails with HTTP 400
\* "Product not found" carrying the product_id of the first such item of
\* the request.
C3_FirstMissing ==
    req.op = "checkout" =>
        LET items == req.payload.items
        IN  ( /\ \E i \in DOMAIN items : is_valid(items[i].product_id)
              /\ Absent(items) # {} )
            => resp = [status |-> 400,
                       detail |-> <<"Product not found: ",
                                    items[Min(Absent(items))].product_id>>]

\* a failed checkout whose first item is priced and whose second is not
C3_Witness ==
    /\ Failed
    /\ Len(req.payload.items) = 2
    /\ Absent(req.payload.items) = {2}
    /\ resp.detail = <<"Product not found: ", req.payload.items[2].product_id>>

\* C4: a checkout that fails with HTTP 400 leaves the order collection as it
\* was.
C4_FailedCheckoutPersistsNothing ==
    [][(req'.op = "checkout" /\ resp'.status = 400) => orders' = orders]_vars

\* the scenario [(A,1),(nonexistent,1)] has failed over a store that holds
\* an earlier order, and that order is all the collection holds
C4_Witness ==
    /\ Failed
    /\ req.payload.items = <<Item("lower", 1, 1), Item("lower", 2, 1)>>
    /\ resp.detail = <<"Product not found: ", [form |-> "lower", oid |-> 2]>>
    /\ Len(products) = 1
    /\ Len(orders) = 1

\* C5: checkout answers HTTP 400 "Invalid product IDs" exactly when no item
\* of the request has a well-formed identifier (an empty list, or malformed
\* identifiers only).
C5_InvalidInputIff ==
    req.op = "checkout" =>
        ( resp = [status |-> 400, detail |-> <<"Invalid product IDs">>]
          <=> \A i \in DOMAIN req.payload.items :
                 req.payload.items[i].product_id.form \notin {"lower", "upper"} )

\* a non-empty request of malformed identifiers was refused while the store
\* holds products
C5_Witness ==
    /\ Failed
    /\ Len(req.payload.items) = 2
    /\ \A i \in DOMAIN req.payload.items :
          req.payload.items[i].product_id.form = "bad"
    /\ resp.detail = <<"Invalid product IDs">>
    /\ products # <<>>

\* C6: a checkout of a non-empty request whose items all name stored
\* products adds exactly one Order, with the request's customer fields and
\* item sequence, and answers with the total stored in it.
C6_ValidCheckoutPersistsOrder ==
    ( /\ req.op = "checkout"
      /\ req.payload.items # <<>>
      /\ \A i \in DOMAIN req.payload.items :
            /\ is_valid(req.payload.items[i].product_id)
            /\ Denoted(req.payload.items[i].product_id) # {} )
    => /\ resp.status = 200
       /\ \E prior \in PriorOrders(products) :
             /\ Len(orders) = Len(prior) + 1
             /\ SubSeq(orders, 1, Len(prior)) = prior
       /\ Last(orders).doc.customer_name = req.payload.customer_name
       /\ Last(orders).doc.customer_email = req.payload.customer_email
       /\ Last(orders).doc.customer_address = req.payload.customer_address
       /\ Last(orders).doc.items = req.payload.items
       /\ resp.total = Last(orders).doc.total

\* C8: every item of every persisted Order has quantity >= 1, and no
\* persisted Order has a negative subtotal, tax or total.
C8_PositiveQuantities ==
    \A i \in DOMAIN orders :
        LET o == orders[i].doc
        IN  /\ \A k \in DOMAIN o.items : o.items[k].quantity >= 1
            /\ o.subtotal >= 0
            /\ o.tax >= 0
            /\ o.total >= 0

\* every stored product is one of the sample products
SeedOnly(coll) ==
    \A i \in DOMAIN coll :
        \E k \in DOMAIN sample : coll[i].title = sample[k].title

\* C7: seed calls one after another: on an empty collection a call inserts
\* the six sample products and reports seeded=true, inserted=6; on a
\* collection of n >= 1 products it inserts nothing and reports
\* seeded=false, count=n; a collection only seed calls have filled holds
\* exactly six products.
C7_SeedSequential ==
    [][req'.op = "seed_products" =>
        /\ products = <<>> =>
              /\ Len(products') = 6
              /\ \A i \in 1..6 : products'[i].title = sample[i].title
              /\ resp' = [status |-> 200, seeded |-> TRUE, inserted |-> 6]
        /\ products # <<>> =>
              /\ products' = products
              /\ resp' = [status |-> 200, seeded |-> FALSE,
                          message |-> "Products already exist",
                          count |-> Len(products)]
        /\ SeedOnly(products') => Len(products') = 6]_vars

\* a second seed call has answered seeded=false with the count of six
C7_Witness ==
    /\ req.op = "seed_products"
    /\ resp.seeded = FALSE
    /\ resp.count = 6
    /\ Len(products) = 6
    /\ seeded_true = 1

\* C9: seed requests that overlap, from an empty collection: at most one
\* reports seeded=true, and once none is between its count and its insert
\* the collection holds exactly six products.
C9_SeedOverlapping ==
    /\ seeded_true <= 1
    /\ ( /\ \A r \in Req : pc[r] # "seed_insert"
         /\ products # <<>>
         /\ SeedOnly(products) )
       => Len(products) = 6

Prefix(s, t) == Len(s) <= Len(t) /\ SubSeq(t, 1, Len(s)) = s

\* the steps that add products: create_product and the insert of a seed
CatalogInsert ==
    \/ \E product \in NewProducts : create_product(product)
    \/ \E r \in Req : SeedInsert(r)

====
